---- MODULE Spec2Model ----
(***************************************************************************)
(* The heading selection, depth normalisation and markdown rendering      *)
(* pipeline of the automatic table of contents (src/src/headings.ts).     *)
(*                                                                         *)
(* A string is a sequence of one-character strings, so that output can be *)
(* taken apart again (lines, leading tabs, separators).                   *)
(***************************************************************************)
EXTENDS Integers, Sequences, FiniteSets, TLC

(***************************************************************************)
(* Bounds of the model.                                                    *)
(***************************************************************************)
\* longest heading list of the filter family of inputs
MaxHeadings == 3
\* deepest raw heading level of the filter family of inputs
MaxLevel == 3
\* longest heading list of the rendering family of inputs
MaxLines == 3

(***************************************************************************)
(* Values.                                                                 *)
(***************************************************************************)
\* JavaScript null for options.include / options.exclude (RegExp | null);
\* a pattern is a non-empty sequence of characters.
Null == <<>>

\* Math.min() of no arguments is +Infinity, which compares greater than
\* every heading level; it is modelled by a value above every level.
Infinity == MaxLevel + 2

Levels == 1..MaxLevel

\* heading labels: empty, whitespace only, matching and not matching Pattern
Labels == {<<>>, <<" ">>, <<"A">>, <<"B">>}

Pattern == <<"B">>

Titles == {<<>>, <<"T">>}

Styles == {"nestedList", "nestedOrderedList", "inlineFirstLevel"}

NoHeadingsNotice ==
    <<"_", "T", "a", "b", "l", "e", " ", "o", "f", " ", "c", "o", "n", "t",
      "e", "n", "t", "s", ":", " ", "n", "o", " ", "h", "e", "a", "d", "i",
      "n", "g", "s", " ", "f", "o", "u", "n", "d", "_">>

\* the `string | null` result of a style handler
NullResult == [isNull |-> TRUE, text |-> <<>>]

StringResult(text) == [isNull |-> FALSE, text |-> text]

(***************************************************************************)
(* String helpers (String.prototype.repeat, Array.prototype.join).        *)
(***************************************************************************)
RECURSIVE Repeat(_, _)
Repeat(c, n) == IF n <= 0 THEN <<>> ELSE <<c>> \o Repeat(c, n - 1)

RECURSIVE Join(_, _)
Join(items, sep) ==
    IF Len(items) = 0 THEN <<>>
    ELSE IF Len(items) = 1 THEN items[1]
    ELSE items[1] \o sep \o Join(Tail(items), sep)

\* RegExp.prototype.test for a literal pattern: the pattern occurs in text
RegExpTest(pattern, text) ==
    \E i \in 1..(Len(text) - Len(pattern) + 1) :
        SubSeq(text, i, i + Len(pattern) - 1) = pattern

MathMin(S) == IF S = {} THEN Infinity ELSE CHOOSE m \in S : \A x \in S : m <= x

(***************************************************************************)
(* markdown.ts (not among the sources): the pattern test and the text     *)
(* formatter, after the specification of the Text Formatter.              *)
(***************************************************************************)
isHeadingAllowed(text, options) ==
    IF options.include # Null THEN RegExpTest(options.include, text)
    ELSE IF options.exclude # Null THEN ~RegExpTest(options.exclude, text)
    ELSE TRUE

\* The labels of the model carry no inline markup, so stripping leaves them
\* as they are; with link wrapping the label becomes [[#target|display]].
getFormattedMarkdownHeading(text, options) ==
    IF options.includeLinks
    THEN <<"[", "[", "#">> \o text \o <<"|">> \o text \o <<"]", "]">>
    ELSE text

(***************************************************************************)
(* getFilteredHeadings, headings.ts:58-86                                  *)
(***************************************************************************)
\* lines 62-63 and 121-122
ResolveMinLevel(headings, options) ==
    IF options.minLevel > 0 THEN options.minLevel
    ELSE MathMin({headings[i].level : i \in DOMAIN headings})

\* a variant that also skips the siblings of an excluded heading
SkipsSiblingsToo(level, unallowedLevel) ==
    unallowedLevel > 0 /\ level >= unallowedLevel

\* line 67
IsDescendantOfUnallowed(level, unallowedLevel) ==
    unallowedLevel > 0 /\ level > unallowedLevel

\* line 68
EndsUnallowedScope(level, unallowedLevel) == level <= unallowedLevel

\* a variant that cascades under the include filter as well
CascadesAlways(options) == TRUE

\* line 74
CascadesExclusion(options) == options.exclude # Null

\* a variant without the floor
NeverBelowMinLevel(level, minLevel) == FALSE

\* line 79
IsBelowMinLevel(level, minLevel) == level < minLevel

\* line 80
IsAboveMaxLevel(level, options) == options.maxLevel > 0 /\ level > options.maxLevel

\* a variant that keeps empty labels
NeverEmptyHeading(text) == FALSE

\* line 81
IsEmptyHeading(text) == Len(text) = 0

\* a variant that collects the headings in reverse
UnshiftHeading(filteredHeadings, heading) == <<heading>> \o filteredHeadings

\* line 82
PushHeading(filteredHeadings, heading) == Append(filteredHeadings, heading)

\* one iteration of the loop of lines 66-83 on the loop state
\* [unallowedLevel, filteredHeadings]
FilterStep(st, heading, options, minLevel) ==
    IF IsDescendantOfUnallowed(heading.level, st.unallowedLevel) THEN st
    ELSE
      LET cleared == IF EndsUnallowedScope(heading.level, st.unallowedLevel)
                     THEN 0 ELSE st.unallowedLevel
      IN  IF ~isHeadingAllowed(heading.heading, options)
          THEN [st EXCEPT !.unallowedLevel =
                   IF CascadesExclusion(options) THEN heading.level ELSE cleared]
          ELSE IF \/ IsBelowMinLevel(heading.level, minLevel)
                  \/ IsAboveMaxLevel(heading.level, options)
                  \/ IsEmptyHeading(heading.heading)
          THEN [st EXCEPT !.unallowedLevel = cleared]
          ELSE [unallowedLevel |-> cleared,
                filteredHeadings |-> PushHeading(st.filteredHeadings, heading)]

RECURSIVE FilterLoop(_, _, _, _, _)
FilterLoop(headings, i, st, options, minLevel) ==
    IF i > Len(headings) THEN st
    ELSE FilterLoop(headings, i + 1,
                    FilterStep(st, headings[i], options, minLevel),
                    options, minLevel)

(***************************************************************************)
(* computeNormalizedDepths, headings.ts:101-115                            *)
(***************************************************************************)
\* a variant that keeps a level equal to the current one on the stack
RECURSIVE PopsLargerOnly(_, _)
PopsLargerOnly(levelStack, level) ==
    IF Len(levelStack) > 0 /\ levelStack[Len(levelStack)] > level
    THEN PopsLargerOnly(SubSeq(levelStack, 1, Len(levelStack) - 1), level)
    ELSE levelStack

\* the while loop of lines 105-110
RECURSIVE PopLevels(_, _)
PopLevels(levelStack, level) ==
    IF Len(levelStack) > 0 /\ levelStack[Len(levelStack)] >= level
    THEN PopLevels(SubSeq(levelStack, 1, Len(levelStack) - 1), level)
    ELSE levelStack

RECURSIVE DepthLoop(_, _, _, _)
DepthLoop(headings, i, levelStack, depths) ==
    IF i > Len(headings) THEN depths
    ELSE LET pushed == Append(PopLevels(levelStack, headings[i].level),
                              headings[i].level)
         IN  DepthLoop(headings, i + 1, pushed, Append(depths, Len(pushed) - 1))

\* a variant that indents by the raw level, relative to the first heading
LevelOffsetDepths(headings) ==
    [i \in 1..Len(headings) |-> headings[i].level - headings[1].level]

computeNormalizedDepths(headings) == DepthLoop(headings, 1, <<>>, <<>>)

getFilteredHeadings(headings, options) ==
    LET minLevel == ResolveMinLevel(headings, options)
        filteredHeadings ==
            FilterLoop(headings, 1,
                       [unallowedLevel |-> 0, filteredHeadings |-> <<>>],
                       options, minLevel).filteredHeadings
        depths == computeNormalizedDepths(filteredHeadings)
    IN  [i \in 1..Len(filteredHeadings) |->
            [heading |-> filteredHeadings[i], depth |-> depths[i]]]

(***************************************************************************)
(* The style handlers, headings.ts:35-47, 88-99, 117-131                   *)
(***************************************************************************)
ListPrefix(isOrdered) == IF isOrdered THEN <<"1", ".">> ELSE <<"-">>

\* a variant that indents by the raw level
ListLineByLevel(item, prefix, options) ==
    Repeat("\t", item.heading.level - 1) \o prefix \o <<" ">>
        \o getFormattedMarkdownHeading(item.heading.heading, options)

\* line 96
ListLine(item, prefix, options) ==
    Repeat("\t", item.depth) \o prefix \o <<" ">>
        \o getFormattedMarkdownHeading(item.heading.heading, options)

\* a variant that never signals "no content"
JoinAlways(items, sep) == StringResult(Join(items, sep))

\* lines 98 and 130
JoinOrNull(items, sep) ==
    IF Len(items) > 0 THEN StringResult(Join(items, sep)) ELSE NullResult

getMarkdownListFromHeadings(headings, isOrdered, options) ==
    LET prefix == ListPrefix(isOrdered)
        filtered == getFilteredHeadings(headings, options)
        lines == [i \in 1..Len(filtered) |-> ListLine(filtered[i], prefix, options)]
    IN  JoinOrNull(lines, <<"\n">>)

\* a variant that takes every heading down to the first level
IsInlineItemOrAbove(heading, minLevel, options) ==
    /\ heading.level <= minLevel
    /\ Len(heading.heading) > 0
    /\ isHeadingAllowed(heading.heading, options)

\* the three filters of lines 124-126
IsInlineItem(heading, minLevel, options) ==
    /\ heading.level = minLevel
    /\ Len(heading.heading) > 0
    /\ isHeadingAllowed(heading.heading, options)

RECURSIVE InlineItems(_, _, _)
InlineItems(headings, minLevel, options) ==
    IF Len(headings) = 0 THEN <<>>
    ELSE (IF IsInlineItem(Head(headings), minLevel, options)
          THEN <<getFormattedMarkdownHeading(Head(headings).heading, options)>>
          ELSE <<>>)
         \o InlineItems(Tail(headings), minLevel, options)

InlineSeparator == <<" ", "|", " ">>

getMarkdownInlineFirstLevelFromHeadings(headings, options) ==
    LET minLevel == ResolveMinLevel(headings, options)
    IN  JoinOrNull(InlineItems(headings, minLevel, options), InlineSeparator)

\* markdownHandlersByStyle[options.style](headings, options), lines 15-25
StyleHandler(headings, options) ==
    CASE options.style = "nestedList" ->
           getMarkdownListFromHeadings(headings, FALSE, options)
      [] options.style = "nestedOrderedList" ->
           getMarkdownListFromHeadings(headings, TRUE, options)
      [] options.style = "inlineFirstLevel" ->
           getMarkdownInlineFirstLevelFromHeadings(headings, options)

(***************************************************************************)
(* getMarkdownFromHeadings, headings.ts:11-33                              *)
(***************************************************************************)
\* a variant that separates the title by a newline in every style
NewlineSeparator(style) == <<"\n">>

\* line 22
TitleSeparator(style) == IF style = "inlineFirstLevel" THEN <<" ">> ELSE <<"\n">>

\* lines 20-24
TitleMarkdown(options) ==
    IF Len(options.title) > 0
    THEN options.title \o TitleSeparator(options.style)
    ELSE <<>>

\* lines 26-32, given the handler's result
MarkdownOfResult(markdownHeadings, options) ==
    IF markdownHeadings.isNull
    THEN IF options.hideWhenEmpty THEN <<>>
         ELSE TitleMarkdown(options) \o NoHeadingsNotice
    ELSE TitleMarkdown(options) \o markdownHeadings.text

getMarkdownFromHeadings(headings, options) ==
    MarkdownOfResult(StyleHandler(headings, options), options)

(***************************************************************************)
(* escapeHtml and wikitextToHtml, main.ts:235-250                          *)
(***************************************************************************)
\* String.prototype.replaceAll of one character by a string
RECURSIVE ReplaceAll(_, _, _)
ReplaceAll(text, c, replacement) ==
    IF Len(text) = 0 THEN <<>>
    ELSE (IF Head(text) = c THEN replacement ELSE <<Head(text)>>)
         \o ReplaceAll(Tail(text), c, replacement)

AmpEntity == <<"&", "a", "m", "p", ";">>

LtEntity == <<"&", "l", "t", ";">>

GtEntity == <<"&", "g", "t", ";">>

QuotEntity == <<"&", "q", "u", "o", "t", ";">>

\* a variant that escapes the ampersand after the other characters
EscapeAmpersandLast(text) ==
    ReplaceAll(ReplaceAll(ReplaceAll(ReplaceAll(text,
        "<", LtEntity), ">", GtEntity), "\"", QuotEntity), "&", AmpEntity)

\* lines 244-250
escapeHtml(text) ==
    ReplaceAll(ReplaceAll(ReplaceAll(ReplaceAll(text,
        "&", AmpEntity), "<", LtEntity), ">", GtEntity), "\"", QuotEntity)

\* line 240
AnchorHtml(link, display) ==
    <<"<", "a", " ", "c", "l", "a", "s", "s", "=", "\"", "i", "n", "t", "e", "r", "n", "a", "l", "-", "l", "i", "n", "k", "\"", " ", "d", "a", "t", "a", "-", "h", "r", "e", "f", "=", "\"", "#">>
        \o escapeHtml(link) \o <<"\"", ">">> \o escapeHtml(display)
        \o <<"<", "/", "a", ">">>

\* the first index from i on whose character is in stops, or 0
FirstIndexOf(text, i, stops) ==
    LET S == {j \in i..Len(text) : text[j] \in stops}
    IN  IF S = {} THEN 0 ELSE CHOOSE j \in S : \A x \in S : j <= x

\* a match of /\[\[#([^\]|]+)\|([^\]]+)\]\]/ (line 238) that starts at i:
\* the two character classes exclude what must follow them, so the greedy
\* runs end at the first "|" or "]" and at the first "]"
MatchLinkAt(text, i) ==
    LET bar == FirstIndexOf(text, i + 3, {"]", "|"})
        close == IF bar = 0 THEN 0 ELSE FirstIndexOf(text, bar + 1, {"]"})
        found ==
            /\ i + 2 <= Len(text)
            /\ SubSeq(text, i, i + 2) = <<"[", "[", "#">>
            /\ bar > i + 3
            /\ text[bar] = "|"
            /\ close > bar + 1
            /\ close + 1 <= Len(text)
            /\ text[close + 1] = "]"
    IN  IF found
        THEN [found |-> TRUE, link |-> SubSeq(text, i + 3, bar - 1),
              display |-> SubSeq(text, bar + 1, close - 1), last |-> close + 1]
        ELSE [found |-> FALSE, link |-> <<>>, display |-> <<>>, last |-> 0]

\* String.prototype.replace with the global flag, lines 237-241
RECURSIVE ReplaceLinks(_, _)
ReplaceLinks(text, i) ==
    IF i > Len(text) THEN <<>>
    ELSE LET m == MatchLinkAt(text, i)
         IN  IF m.found
             THEN AnchorHtml(m.link, m.display) \o ReplaceLinks(text, m.last + 1)
             ELSE <<text[i]>> \o ReplaceLinks(text, i + 1)

wikitextToHtml(text) == ReplaceLinks(text, 1)

(***************************************************************************)
(* renderFoldableList, main.ts:172-233.  A TreeNode is named by the place *)
(* of its heading in the flat list; the tree is the sequence of roots and *)
(* the nodes with their children.  The markup is the serialisation of the *)
(* elements: one token per tag, the characters of innerHTML in between.   *)
(***************************************************************************)
\* a variant that keeps a node of the same depth on the stack
PopsDeeperOnly(stackDepth, depth) == stackDepth > depth

\* line 195
PopsNode(stackDepth, depth) == stackDepth >= depth

\* the while loop of lines 193-198
RECURSIVE PopNodes(_, _)
PopNodes(stack, depth) ==
    IF Len(stack) > 0 /\ PopsNode(stack[Len(stack)].depth, depth)
    THEN PopNodes(SubSeq(stack, 1, Len(stack) - 1), depth)
    ELSE stack

\* a variant that shows the raw label
RawNodeText(item, options) == item.heading.heading

\* line 189
NodeText(item, options) == getFormattedMarkdownHeading(item.heading.heading, options)

\* lines 188-206 for item i of flat, on [roots, nodes, stack]
BuildStep(st, flat, i, options) ==
    LET node == [text |-> NodeText(flat[i], options), children |-> <<>>]
        stack == PopNodes(st.stack, flat[i].depth)
        nodes == Append(st.nodes, node)
    IN  [ roots |-> IF Len(stack) = 0 THEN Append(st.roots, i) ELSE st.roots,
          nodes |-> IF Len(stack) = 0 THEN nodes
                    ELSE [nodes EXCEPT ![stack[Len(stack)].node].children =
                                          Append(@, i)],
          stack |-> Append(stack, [node |-> i, depth |-> flat[i].depth]) ]

RECURSIVE BuildLoop(_, _, _, _)
BuildLoop(st, flat, i, options) ==
    IF i > Len(flat) THEN st
    ELSE BuildLoop(BuildStep(st, flat, i, options), flat, i + 1, options)

\* lines 184-208
buildTree(flat, options) ==
    LET st == BuildLoop([roots |-> <<>>, nodes |-> <<>>, stack |-> <<>>],
                        flat, 1, options)
    IN  [roots |-> st.roots, nodes |-> st.nodes]

\* line 211
ListTag(isOrdered) == IF isOrdered THEN "ol" ELSE "ul"

\* lines 210-229: the list element appended to parent
RECURSIVE renderNodes(_, _, _)
RECURSIVE RenderItems(_, _, _)
RenderItems(tree, ids, isOrdered) ==
    IF Len(ids) = 0 THEN <<>>
    ELSE LET node == tree.nodes[Head(ids)]
         IN  <<"<li>">>
             \o (IF Len(node.children) > 0
                 THEN <<"<details open>", "<summary>">>
                      \o wikitextToHtml(node.text)
                      \o <<"</summary>">>
                      \o renderNodes(tree, node.children, isOrdered)
                      \o <<"</details>">>
                 ELSE wikitextToHtml(node.text))
             \o <<"</li>">>
             \o RenderItems(tree, Tail(ids), isOrdered)

renderNodes(tree, ids, isOrdered) ==
    <<"<" \o ListTag(isOrdered) \o ">">>
        \o RenderItems(tree, ids, isOrdered)
        \o <<"</" \o ListTag(isOrdered) \o ">">>

\* lines 231-232
renderFoldableList(items, options, isOrdered) ==
    LET built == buildTree(items, options)
    IN  [tree |-> built, markup |-> renderNodes(built, built.roots, isOrdered)]

(***************************************************************************)
(* State: the inputs of one render pass and what the calls returned.      *)
(***************************************************************************)
VARIABLES
    headings,          \* HeadingCache[] of the document, in document order
    options,           \* TableOfContentsOptions of the pass
    pc,                \* "idle", or which call has returned
    filtered,          \* FilteredHeading[] (getFilteredHeadings, line 94)
    markdownHeadings,  \* the style handler's result (line 25)
    markdown,          \* what getMarkdownFromHeadings returned
    malformed,         \* what is wrong with the source text: "none", "parse", "pattern"
    sourcePath,        \* Renderer.sourcePath
    element,           \* the children of Renderer.element, in order
    tree,              \* the TreeNode forest of the last foldable list (main.ts:231)
    renderCount,       \* how many times Renderer.render has run
    renderOutcome,     \* how the last render ended: "none", "ok", "failed"
    docPath,           \* vault: the path of the hosting document
    otherPath,         \* vault: the path of another document
    lastEvent,         \* the last notification the host sent
    wikitext,          \* the argument of wikitextToHtml, in its parts
    html               \* what wikitextToHtml returned

\* the Renderer, its host and the arguments of wikitextToHtml
rendererVars ==
    <<malformed, sourcePath, element, tree, renderCount, renderOutcome,
      docPath, otherPath, lastEvent>>

htmlVars == <<wikitext, html>>

vars ==
    <<headings, options, pc, filtered, markdownHeadings, markdown,
      malformed, sourcePath, element, tree, renderCount, renderOutcome,
      docPath, otherPath, lastEvent, wikitext, html>>

EmptyTree == [roots |-> <<>>, nodes |-> <<>>]

NoEvent == [kind |-> "none", path |-> "", oldPath |-> "", tracked |-> ""]

NoWikitext == [before |-> <<>>, link |-> <<>>, display |-> <<>>, after |-> <<>>]

\* a Renderer constructed for the document "a.md" (main.ts:82-95), not loaded
RendererConstructed ==
    /\ docPath = "a.md"
    /\ otherPath = "b.md"
    /\ sourcePath = "a.md"
    /\ element = <<>>
    /\ tree = EmptyTree
    /\ renderCount = 0
    /\ renderOutcome = "none"
    /\ lastEvent = NoEvent

NoHtmlCall == wikitext = NoWikitext /\ html = <<>>

\* heading lists of at most n headings; position is the place in the document
HeadingLists(labels, levels, n) ==
    UNION {
      { [i \in 1..k |-> [heading |-> f[i].heading, level |-> f[i].level, position |-> i]] :
          f \in [1..k -> [heading : labels, level : levels]] }
      : k \in 0..n }

\* include and exclude are mutually exclusive
PatternChoices ==
    { [include |-> Null, exclude |-> Null],
      [include |-> Pattern, exclude |-> Null],
      [include |-> Null, exclude |-> Pattern] }

OptionsOf(p, minLevel, maxLevel, style, title, hideWhenEmpty, includeLinks) ==
    [ include |-> p.include, exclude |-> p.exclude,
      minLevel |-> minLevel, maxLevel |-> maxLevel,
      style |-> style, title |-> title,
      hideWhenEmpty |-> hideWhenEmpty, includeLinks |-> includeLinks ]

\* every filter option, on the default rendering options
FilterInputs ==
    /\ headings \in HeadingLists(Labels \ {<<" ">>}, Levels, MaxHeadings)
    /\ options \in { OptionsOf(p, mn, mx, "nestedList", <<>>, FALSE, FALSE) :
                        p \in PatternChoices, mn \in {0, 2}, mx \in {0, 2} }

\* every rendering option, on short documents
RenderInputs ==
    /\ headings \in HeadingLists(Labels, {1, 2}, MaxLines)
    /\ options \in { OptionsOf(p[1], p[2], 0, p[3], p[4], p[5], p[6]) :
                        p \in PatternChoices \X {0, 2} \X Styles \X Titles
                              \X BOOLEAN \X BOOLEAN }

Init ==
    /\ FilterInputs \/ RenderInputs
    /\ pc = "idle"
    /\ filtered = <<>>
    /\ markdownHeadings = NullResult
    /\ markdown = <<>>
    /\ malformed = "none"
    /\ RendererConstructed
    /\ NoHtmlCall

\* a caller (Renderer.render, main.ts:137) calls getFilteredHeadings
CallGetFilteredHeadings ==
    /\ pc = "idle"
    /\ filtered' = getFilteredHeadings(headings, options)
    /\ pc' = "filtered"
    /\ UNCHANGED <<headings, options, markdownHeadings, markdown>>
    /\ UNCHANGED <<rendererVars, htmlVars>>

\* a caller (Renderer.render, main.ts:159) calls getMarkdownFromHeadings;
\* the list styles run the filter (line 94), the inline style does not
CallGetMarkdownFromHeadings ==
    /\ pc = "idle"
    /\ markdownHeadings' = StyleHandler(headings, options)
    /\ markdown' = getMarkdownFromHeadings(headings, options)
    /\ filtered' = IF options.style = "inlineFirstLevel" THEN filtered
                   ELSE getFilteredHeadings(headings, options)
    /\ pc' = "markdown"
    /\ UNCHANGED <<headings, options>>
    /\ UNCHANGED <<rendererVars, htmlVars>>

Next == CallGetFilteredHeadings \/ CallGetMarkdownFromHeadings

Spec == Init /\ [][Next]_vars

(***************************************************************************)
(* Renderer, main.ts:75-170, and its host.                                 *)
(***************************************************************************)
\* most renders of one Renderer that the model follows
MaxRenders == 3

Paths == {"a.md", "b.md", "c.md"}

\* the document with no heading and with one heading
DocVersions == HeadingLists({<<"A">>}, {1}, 1)

\* line 166, `_... Could not render table of contents (${message})_`
FailureNotice == <<"_", "Could not render table of contents", "_">>

\* what MarkdownRenderer.renderMarkdown(text, element) adds to the element
MarkdownChild(text) == [tag |-> "markdown", content |-> text]

\* lines 144-146 and 152-154
TitleChild(title) == [tag |-> "div", content |-> title]

\* lines 141-142
NoHeadingsChild ==
    [tag |-> "em",
     content |-> <<"T", "a", "b", "l", "e", " ", "o", "f", " ", "c", "o", "n", "t", "e", "n", "t", "s", ":", " ", "n", "o", " ", "h", "e", "a", "d", "i", "n", "g", "s", " ", "f", "o", "u", "n", "d">>]

\* the list element renderNodes appends to the container (line 232)
ListChild(markup) == [tag |-> "list", content |-> markup]

\* lines 143 and 151
TitleChildren(opts) ==
    IF Len(opts.title) > 0 THEN <<TitleChild(opts.title)>> ELSE <<>>

\* options.ts (not among the sources): parseOptionsFromSourceText throws on
\* a malformed source text
ParseThrows == malformed = "parse"

\* markdown.ts (not among the sources): a malformed pattern throws when it
\* is tested.  The list filter tests the first heading it visits (lines
\* 66-71), the inline style the non-empty headings of the first level
\* (lines 124-126).
PatternTestThrows(hs, opts) ==
    /\ malformed = "pattern"
    /\ IF opts.style = "inlineFirstLevel"
       THEN \E i \in DOMAIN hs :
               /\ hs[i].level = ResolveMinLevel(hs, opts)
               /\ Len(hs[i].heading) > 0
       ELSE Len(hs) > 0

\* lines 129-130: the headings of the file at path, [] without metadata
CacheHeadings(path, docAt, docHeadings) ==
    IF path = docAt THEN docHeadings ELSE <<>>

\* the locals of a pass that did not reach them
NoLocals ==
    /\ filtered' = <<>>
    /\ tree' = EmptyTree
    /\ markdownHeadings' = NullResult
    /\ markdown' = <<>>

\* Renderer.render, lines 124-169, for the tracked path and the vault as
\* they are when it runs
Render(path, docAt, docHeadings) ==
    LET hs == CacheHeadings(path, docAt, docHeadings)
    IN  /\ renderCount' = renderCount + 1
        /\ IF ParseThrows
           THEN \* thrown at line 126, caught at line 163: nothing was emptied
                /\ element' = Append(element, MarkdownChild(FailureNotice))
                /\ renderOutcome' = "failed"
                /\ NoLocals
           ELSE IF PatternTestThrows(hs, options)
           THEN \* thrown at line 137 or 159, after line 133 emptied the element
                /\ element' = <<MarkdownChild(FailureNotice)>>
                /\ renderOutcome' = "failed"
                /\ NoLocals
           ELSE IF options.foldable /\ options.style # "inlineFirstLevel"
           THEN LET f == getFilteredHeadings(hs, options)
                    r == renderFoldableList(f, options,
                                            options.style = "nestedOrderedList")
                IN  /\ filtered' = f
                    /\ markdownHeadings' = NullResult
                    /\ markdown' = <<>>
                    /\ renderOutcome' = "ok"
                    /\ IF Len(f) = 0
                       THEN /\ tree' = EmptyTree
                            /\ element' = IF options.hideWhenEmpty THEN <<>>
                                          ELSE TitleChildren(options) \o <<NoHeadingsChild>>
                       ELSE /\ tree' = r.tree
                            /\ element' = TitleChildren(options) \o <<ListChild(r.markup)>>
           ELSE /\ markdownHeadings' = StyleHandler(hs, options)
                /\ markdown' = getMarkdownFromHeadings(hs, options)
                /\ filtered' = IF options.style = "inlineFirstLevel" THEN <<>>
                               ELSE getFilteredHeadings(hs, options)
                /\ tree' = EmptyTree
                /\ renderOutcome' = "ok"
                /\ element' = <<MarkdownChild(getMarkdownFromHeadings(hs, options))>>

NoRender ==
    UNCHANGED <<element, tree, renderCount, renderOutcome,
                filtered, markdownHeadings, markdown>>

\* a variant that keeps the path given to the constructor
PathNeverUpdated(tracked, oldPath, newPath) == tracked

\* lines 111-112
PathAfterRename(tracked, oldPath, newPath) ==
    IF oldPath = tracked THEN newPath ELSE tracked

\* a variant that renders on every change of the metadata cache
AnyFileChanged(path, tracked) == TRUE

\* line 103
IsCurrentFile(path, tracked) == path = tracked

\* onload, lines 98-117: the first render, then the two registrations
Onload ==
    /\ pc = "constructed"
    /\ pc' = "loaded"
    /\ Render(sourcePath, docPath, headings)
    /\ lastEvent' = [kind |-> "load", path |-> docPath, oldPath |-> docPath,
                     tracked |-> sourcePath]
    /\ UNCHANGED <<headings, options, malformed, sourcePath, docPath, otherPath>>
    /\ UNCHANGED htmlVars

\* metadataCache 'changed' for the hosting document ("doc", whose headings
\* may be different now) or for the other one, lines 101-106
MetadataChanged(file) ==
    /\ pc = "loaded"
    /\ renderCount < MaxRenders
    /\ LET path == IF file = "doc" THEN docPath ELSE otherPath
       IN  /\ headings' \in (IF file = "doc" THEN DocVersions ELSE {headings})
           /\ lastEvent' = [kind |-> "changed", path |-> path, oldPath |-> path,
                            tracked |-> sourcePath]
           /\ IF IsCurrentFile(path, sourcePath)
              THEN Render(sourcePath, docPath, headings')
              ELSE NoRender
    /\ UNCHANGED <<options, pc, malformed, sourcePath, docPath, otherPath>>
    /\ UNCHANGED htmlVars

\* vault 'rename' of the hosting document or of the other one to a free
\* path, lines 110-115: the handler gets the file at its new path and the
\* old path
VaultRename(file, newPath) ==
    /\ pc = "loaded"
    /\ renderCount < MaxRenders
    /\ newPath \notin {docPath, otherPath}
    /\ LET oldPath == IF file = "doc" THEN docPath ELSE otherPath
       IN  /\ docPath' = IF file = "doc" THEN newPath ELSE docPath
           /\ otherPath' = IF file = "doc" THEN otherPath ELSE newPath
           /\ lastEvent' = [kind |-> "rename", path |-> newPath, oldPath |-> oldPath,
                            tracked |-> sourcePath]
           /\ sourcePath' = PathAfterRename(sourcePath, oldPath, newPath)
           /\ IF oldPath = sourcePath
              THEN Render(sourcePath', docPath', headings)
              ELSE NoRender
    /\ UNCHANGED <<headings, options, pc, malformed>>
    /\ UNCHANGED htmlVars

\* options with the foldable switch
WithFoldable(opts, foldable) == [foldable |-> foldable] @@ opts

\* a Renderer over a short document, with every kind of source text
RendererInputs ==
    /\ headings \in DocVersions
    /\ options \in { WithFoldable(OptionsOf(p, 0, 0, s, t, h, FALSE), f) :
                        p \in PatternChoices \ {[include |-> Pattern, exclude |-> Null]},
                        s \in {"nestedList", "inlineFirstLevel"},
                        t \in Titles, h \in BOOLEAN, f \in BOOLEAN }
    /\ malformed \in {"none", "parse", "pattern"}

InitRenderer ==
    /\ RendererInputs
    /\ pc = "constructed"
    /\ filtered = <<>>
    /\ markdownHeadings = NullResult
    /\ markdown = <<>>
    /\ RendererConstructed
    /\ NoHtmlCall

NextRenderer ==
    \/ Onload
    \/ \E file \in {"doc", "other"} : MetadataChanged(file)
    \/ \E file \in {"doc", "other"}, newPath \in Paths : VaultRename(file, newPath)

SpecRenderer == InitRenderer /\ [][NextRenderer]_vars

\* the first render of a foldable nested list over every document
FoldableInputs ==
    /\ headings \in HeadingLists({<<"A">>, <<"B">>}, Levels, MaxHeadings)
    /\ options \in { WithFoldable(OptionsOf(p, 0, 0, s, t, h, l), TRUE) :
                        p \in PatternChoices,
                        s \in {"nestedList", "nestedOrderedList"},
                        t \in Titles, h \in BOOLEAN, l \in BOOLEAN }
    /\ malformed = "none"

InitFoldable ==
    /\ FoldableInputs
    /\ pc = "constructed"
    /\ filtered = <<>>
    /\ markdownHeadings = NullResult
    /\ markdown = <<>>
    /\ RendererConstructed
    /\ NoHtmlCall

NextFoldable == Onload

SpecFoldable == InitFoldable /\ [][NextFoldable]_vars

\* levels a faulty host could report: below 1 as well
DegenerateLevels == (-1)..MaxLevel

\* the filter over documents with degenerate levels
DegenerateInputs ==
    /\ headings \in HeadingLists({<<"A">>, <<"B">>}, DegenerateLevels, MaxHeadings)
    /\ options \in { OptionsOf(p, mn, mx, "nestedList", <<>>, FALSE, FALSE) :
                        p \in PatternChoices, mn \in {0, 2}, mx \in {0, 2} }

InitDegenerate ==
    /\ DegenerateInputs
    /\ pc = "idle"
    /\ filtered = <<>>
    /\ markdownHeadings = NullResult
    /\ markdown = <<>>
    /\ malformed = "none"
    /\ RendererConstructed
    /\ NoHtmlCall

NextDegenerate == CallGetFilteredHeadings

SpecDegenerate == InitDegenerate /\ [][NextDegenerate]_vars

\* most characters of a link target and of a display text
MaxPart == 2

\* the strings of 1..n characters of an alphabet
StringsOver(alphabet, n) == UNION { [1..k -> alphabet] : k \in 1..n }

\* what the first group of the pattern (line 238) can hold: anything but
\* "]" and "|"
LinkChars == {"a", "&", "<", ">", "\""}

\* what the second group can hold: anything but "]"
DisplayChars == LinkChars \cup {"|"}

\* the link notation as it stands in a label
LinkNotation(link, display) ==
    <<"[", "[", "#">> \o link \o <<"|">> \o display \o <<"]", "]">>

\* another link of the same label
OtherLink == LinkNotation(<<"&">>, <<"<">>)

\* what surrounds a link in a label: nothing, plain text, another link
TextsBefore == {<<>>, <<"<">>, OtherLink}

TextsAfter == {<<>>, <<"&", "]">>, OtherLink}

\* the label handed to wikitextToHtml (node.text, lines 219 and 224)
LabelOf(w) == w.before \o LinkNotation(w.link, w.display) \o w.after

HtmlInputs ==
    wikitext \in [ before : TextsBefore, link : StringsOver(LinkChars, MaxPart),
                   display : StringsOver(DisplayChars, MaxPart), after : TextsAfter ]

InitHtml ==
    /\ HtmlInputs
    /\ html = <<>>
    /\ headings = <<>>
    /\ options = OptionsOf([include |-> Null, exclude |-> Null], 0, 0,
                           "nestedList", <<>>, FALSE, TRUE)
    /\ pc = "idle"
    /\ filtered = <<>>
    /\ markdownHeadings = NullResult
    /\ markdown = <<>>
    /\ malformed = "none"
    /\ RendererConstructed

\* renderNodes sets the content of an item, lines 219 and 224
CallWikitextToHtml ==
    /\ pc = "idle"
    /\ html' = wikitextToHtml(LabelOf(wikitext))
    /\ pc' = "converted"
    /\ UNCHANGED <<wikitext, headings, options, filtered, markdownHeadings, markdown>>
    /\ UNCHANGED rendererVars

NextHtml == CallWikitextToHtml

SpecHtml == InitHtml /\ [][NextHtml]_vars

(***************************************************************************)
(* Notions the properties are stated in, defined over the inputs and      *)
(* independently of the loops above.                                       *)
(***************************************************************************)
\* getFilteredHeadings has returned: to its caller, or inside a list style
FilterReturned ==
    \/ pc = "filtered"
    \/ pc = "markdown" /\ options.style # "inlineFirstLevel"

ListStyle == options.style \in {"nestedList", "nestedOrderedList"}

\* heading i of the document is in the filter's result
InResult(i) == \E k \in DOMAIN filtered : filtered[k].heading.position = i

Allowed(i) == isHeadingAllowed(headings[i].heading, options)

\* level l is not below the effective minLevel: options.minLevel when set,
\* otherwise the lowest level of the whole document
AtOrAboveFloor(l) ==
    IF options.minLevel > 0 THEN l >= options.minLevel
    ELSE \E i \in DOMAIN headings : headings[i].level <= l

\* level l is the effective minLevel
AtFloor(l) ==
    IF options.minLevel > 0 THEN l = options.minLevel
    ELSE \A i \in DOMAIN headings : l <= headings[i].level

AtOrBelowCap(l) == options.maxLevel > 0 => l <= options.maxLevel

\* heading i passes the tests that look at nothing but heading i
PassesOwnTests(i) ==
    /\ Allowed(i)
    /\ AtOrAboveFloor(headings[i].level)
    /\ AtOrBelowCap(headings[i].level)
    /\ headings[i].heading # <<>>

\* heading i lies in the subtree of a heading that the exclude filter
\* rejected: a heading j before it was tested and failed, and every heading
\* from j+1 to i is deeper than j
RECURSIVE InExcludedSubtree(_)
InExcludedSubtree(i) ==
    /\ options.exclude # Null
    /\ \E j \in 1..(i - 1) :
          /\ ~InExcludedSubtree(j)
          /\ ~Allowed(j)
          /\ headings[j].level > 0
          /\ \A k \in (j + 1)..i : headings[k].level > headings[j].level

\* String.prototype.trim on the characters of the model
RECURSIVE TrimStart(_)
TrimStart(text) ==
    IF Len(text) > 0 /\ Head(text) = " " THEN TrimStart(Tail(text)) ELSE text

RECURSIVE TrimEnd(_)
TrimEnd(text) ==
    IF Len(text) > 0 /\ text[Len(text)] = " "
    THEN TrimEnd(SubSeq(text, 1, Len(text) - 1)) ELSE text

Trim(text) == TrimEnd(TrimStart(text))

(***************************************************************************)
(* C1  The depths returned by getFilteredHeadings are a gap-free forest   *)
(* encoding: the first depth is 0, no depth is negative, and each later   *)
(* depth is at most one more than the depth just before it.               *)
(***************************************************************************)
DepthsAreGapFree ==
    FilterReturned =>
        /\ Len(filtered) > 0 => filtered[1].depth = 0
        /\ \A k \in DOMAIN filtered : filtered[k].depth >= 0
        /\ \A k \in 2..Len(filtered) : filtered[k].depth <= filtered[k - 1].depth + 1

\* a level gap (H1 then H3) among the surviving headings was closed
GapClosedWitness ==
    /\ pc = "filtered"
    /\ \E k \in 2..Len(filtered) :
          /\ filtered[k].heading.level >= filtered[k - 1].heading.level + 2
          /\ filtered[k].depth = filtered[k - 1].depth + 1

(***************************************************************************)
(* C2  getFilteredHeadings neither reorders nor duplicates: its result is *)
(* the input restricted to the headings that pass all the filters (the    *)
(* pattern test with its cascade, minLevel, maxLevel, non-empty label),   *)
(* each once, in document order.                                           *)
(***************************************************************************)
FilterKeepsDocumentOrder ==
    FilterReturned =>
        /\ \A k \in DOMAIN filtered :
              /\ filtered[k].heading.position \in DOMAIN headings
              /\ filtered[k].heading = headings[filtered[k].heading.position]
        /\ \A k \in 2..Len(filtered) :
              filtered[k - 1].heading.position < filtered[k].heading.position
        /\ \A i \in DOMAIN headings :
              InResult(i) <=> (~InExcludedSubtree(i) /\ PassesOwnTests(i))

\* two headings survive around one that was removed
RemovedBetweenWitness ==
    /\ pc = "filtered"
    /\ \E k \in 2..Len(filtered) :
          filtered[k].heading.position > filtered[k - 1].heading.position + 1

(***************************************************************************)
(* C3  Under the exclude filter (levels >= 1) a heading that fails the    *)
(* pattern test is removed with its subtree: every following heading is   *)
(* removed as long as the levels stay above the failing heading's level,  *)
(* and the first following heading at or above that level is judged on    *)
(* its own label and level again.  The failing heading is one the loop    *)
(* tests (line 71): a heading inside an excluded subtree is skipped       *)
(* before the test is made.                                                *)
(***************************************************************************)
\* the first heading after j that is not deeper than j, or 0
FirstNotDeeperAfter(j) ==
    LET S == {i \in (j + 1)..Len(headings) : headings[i].level <= headings[j].level}
    IN  IF S = {} THEN 0 ELSE CHOOSE i \in S : \A x \in S : i <= x

ExcludeRemovesSubtree ==
    (FilterReturned /\ options.exclude # Null) =>
        \A j \in DOMAIN headings :
            (~InExcludedSubtree(j) /\ ~Allowed(j)) =>
                /\ ~InResult(j)
                /\ \A i \in (j + 1)..Len(headings) :
                      (\A k \in (j + 1)..i : headings[k].level > headings[j].level)
                          => ~InResult(i)
                /\ LET n == FirstNotDeeperAfter(j)
                   IN  n # 0 => (InResult(n) <=> PassesOwnTests(n))

\* an excluded heading, a descendant that is removed although it passes
\* its own tests, and a later heading at the excluded level that is kept
ExcludeCascadeWitness ==
    /\ pc = "filtered"
    /\ options.exclude # Null
    /\ \E j \in DOMAIN headings :
          /\ ~InExcludedSubtree(j) /\ ~Allowed(j)
          /\ j + 1 \in DOMAIN headings
          /\ headings[j + 1].level > headings[j].level
          /\ PassesOwnTests(j + 1)
          /\ ~InResult(j + 1)
          /\ FirstNotDeeperAfter(j) # 0
          /\ InResult(FirstNotDeeperAfter(j))

(***************************************************************************)
(* C4  Under the include filter nothing cascades: a heading is in the     *)
(* result exactly when its own label and level pass (pattern, minLevel,   *)
(* maxLevel, non-empty label), whatever happened to the headings before.  *)
(***************************************************************************)
IncludeJudgesEachHeadingAlone ==
    (FilterReturned /\ options.include # Null) =>
        \A i \in DOMAIN headings : InResult(i) <=> PassesOwnTests(i)

\* a child is kept although the heading above it failed the include test
ChildKeptWithoutParentWitness ==
    /\ pc = "filtered"
    /\ options.include # Null
    /\ \E i \in 2..Len(headings) :
          /\ ~Allowed(i - 1)
          /\ headings[i].level > headings[i - 1].level
          /\ InResult(i)

(***************************************************************************)
(* C5  as stated: no heading whose label is empty after trimming (empty   *)
(* or whitespace only) is in the result of getFilteredHeadings.           *)
(***************************************************************************)
NoBlankLabelSurvives ==
    FilterReturned =>
        \A k \in DOMAIN filtered : Trim(filtered[k].heading.heading) # <<>>

(***************************************************************************)
(* C5  as amended: no heading whose label is the empty string is in the   *)
(* result of getFilteredHeadings (the label is not trimmed).              *)
(***************************************************************************)
NoEmptyLabelSurvives ==
    FilterReturned =>
        \A k \in DOMAIN filtered : Len(filtered[k].heading.heading) # 0

\* a heading was removed for its empty label alone, next to a kept one
EmptyLabelRemovedWitness ==
    /\ pc = "filtered"
    /\ Len(filtered) > 0
    /\ \E i \in DOMAIN headings :
          /\ headings[i].heading = <<>>
          /\ Allowed(i)
          /\ ~InExcludedSubtree(i)
          /\ AtOrAboveFloor(headings[i].level)
          /\ AtOrBelowCap(headings[i].level)
          /\ ~InResult(i)

(***************************************************************************)
(* C6  Every heading in the result has a level not below the effective    *)
(* minLevel (options.minLevel when > 0, otherwise the lowest level of the *)
(* whole input) and, when options.maxLevel > 0, not above maxLevel.       *)
(***************************************************************************)
LevelsWithinFloorAndCap ==
    FilterReturned =>
        \A k \in DOMAIN filtered :
            /\ AtOrAboveFloor(filtered[k].heading.level)
            /\ AtOrBelowCap(filtered[k].heading.level)

\* the floor and the cap each remove a heading that passes everything else
FloorAndCapWitness ==
    /\ pc = "filtered"
    /\ options.minLevel > 0 /\ options.maxLevel > 0
    /\ Len(filtered) > 0
    /\ \E i, j \in DOMAIN headings :
          /\ headings[i].level < options.minLevel
          /\ headings[j].level > options.maxLevel
          /\ Allowed(i) /\ Allowed(j)
          /\ ~InExcludedSubtree(i) /\ ~InExcludedSubtree(j)
          /\ headings[i].heading # <<>> /\ headings[j].heading # <<>>
          /\ ~InResult(i) /\ ~InResult(j)

(***************************************************************************)
(* Notions for the rendered text.                                          *)
(***************************************************************************)
\* the title with its separator: a newline for the list styles, a space
\* for the inline style; nothing when there is no title
ExpectedTitlePrefix ==
    IF options.title = <<>> THEN <<>>
    ELSE IF ListStyle THEN options.title \o <<"\n">>
    ELSE options.title \o <<" ">>

\* the pieces of text between the occurrences of character c
RECURSIVE SplitAt(_, _)
SplitAt(text, c) ==
    LET S == {i \in DOMAIN text : text[i] = c}
    IN  IF S = {} THEN <<text>>
        ELSE LET i == CHOOSE x \in S : \A y \in S : x <= y
             IN  <<SubSeq(text, 1, i - 1)>> \o SplitAt(SubSeq(text, i + 1, Len(text)), c)

\* how many tab characters text starts with
RECURSIVE LeadingTabs(_)
LeadingTabs(text) ==
    IF Len(text) > 0 /\ Head(text) = "\t" THEN 1 + LeadingTabs(Tail(text)) ELSE 0

ExpectedMarker == IF options.style = "nestedOrderedList" THEN <<"1", ".">> ELSE <<"-">>

\* the headings the inline style selects, as document positions in order:
\* at the effective minLevel, with a non-empty label, passing the pattern
\* test, each looked at alone
RECURSIVE InlineSelection(_)
InlineSelection(n) ==
    IF n = 0 THEN <<>>
    ELSE InlineSelection(n - 1) \o
         (IF /\ AtFloor(headings[n].level)
             /\ headings[n].heading # <<>>
             /\ Allowed(n)
          THEN <<n>> ELSE <<>>)

(***************************************************************************)
(* C7  For an empty heading list with minLevel auto (0) nothing fails:    *)
(* getFilteredHeadings returns the empty sequence and, in every style,    *)
(* getMarkdownFromHeadings returns the empty string when hideWhenEmpty is *)
(* set and otherwise the no-headings-found notice (after the title, when  *)
(* there is one).                                                          *)
(***************************************************************************)
EmptyInputGivesEmptyState ==
    (headings = <<>> /\ options.minLevel = 0) =>
        /\ FilterReturned => filtered = <<>>
        /\ pc = "markdown" =>
              /\ markdownHeadings.isNull
              /\ markdown = IF options.hideWhenEmpty THEN <<>>
                            ELSE ExpectedTitlePrefix \o NoHeadingsNotice

\* the inline style on an empty document, where the minimum is taken over
\* no level at all, shows just the notice
EmptyInlineNoticeWitness ==
    /\ pc = "markdown"
    /\ headings = <<>>
    /\ options.minLevel = 0
    /\ options.style = "inlineFirstLevel"
    /\ ~options.hideWhenEmpty
    /\ markdown = NoHeadingsNotice

(***************************************************************************)
(* C8  For the nested unordered and ordered styles with a non-empty       *)
(* filtered list, the body has one line per filtered heading, in filtered *)
(* order, joined by newline; line k is depth[k] tabs, the marker ("-" or  *)
(* "1."), one space and the formatted label of heading k.                 *)
(***************************************************************************)
ListBodyHasOneLinePerHeading ==
    (pc = "markdown" /\ ListStyle /\ Len(filtered) > 0) =>
        /\ ~markdownHeadings.isNull
        /\ LET lines == SplitAt(markdownHeadings.text, "\n")
           IN  /\ Len(lines) = Len(filtered)
               /\ \A k \in DOMAIN filtered :
                     /\ LeadingTabs(lines[k]) = filtered[k].depth
                     /\ SubSeq(lines[k], filtered[k].depth + 1, Len(lines[k]))
                          = ExpectedMarker \o <<" ">> \o
                            getFormattedMarkdownHeading(
                                filtered[k].heading.heading, options)

\* an ordered list of at least two lines, one of them indented although
\* the document has no heading of level 1
IndentedOrderedListWitness ==
    /\ pc = "markdown"
    /\ options.style = "nestedOrderedList"
    /\ Len(filtered) >= 2
    /\ \E k \in DOMAIN filtered :
          filtered[k].depth = 1 /\ filtered[k - 1].heading.level > 1
    /\ Len(SplitAt(markdownHeadings.text, "\n")) = Len(filtered)

(***************************************************************************)
(* C9  The inline style shows exactly the input headings at the effective *)
(* minLevel (resolved over the whole input) that have a non-empty label   *)
(* and pass the include/exclude test, each judged alone in either filter  *)
(* mode, in document order and joined by " | "; with none of them it      *)
(* signals no content.                                                     *)
(***************************************************************************)
InlineShowsFirstLevelOnly ==
    (pc = "markdown" /\ options.style = "inlineFirstLevel") =>
        LET sel == InlineSelection(Len(headings))
            items == [k \in DOMAIN sel |->
                        getFormattedMarkdownHeading(headings[sel[k]].heading, options)]
        IN  IF sel = <<>> THEN markdownHeadings.isNull
            ELSE /\ ~markdownHeadings.isNull
                 /\ markdownHeadings.text = Join(items, <<" ", "|", " ">>)

\* (A,1),(B,2),(C,1) with minLevel auto: A and C are joined, B is left out
InlineScenarioWitness ==
    /\ pc = "markdown"
    /\ options.style = "inlineFirstLevel"
    /\ options.minLevel = 0
    /\ ~options.includeLinks
    /\ Len(headings) = 3
    /\ headings[1].level = 1 /\ headings[2].level = 2 /\ headings[3].level = 1
    /\ headings[1].heading = <<"A">> /\ headings[3].heading = <<"B">>
    /\ ~markdownHeadings.isNull
    /\ markdownHeadings.text = <<"A", " ", "|", " ", "B">>

\* under the exclude filter a heading is shown although the heading above
\* it was excluded
InlineNoCascadeWitness ==
    /\ pc = "markdown"
    /\ options.style = "inlineFirstLevel"
    /\ options.exclude # Null
    /\ \E i \in 2..Len(headings) :
          /\ ~Allowed(i - 1)
          /\ headings[i - 1].level < headings[i].level
          /\ ~markdownHeadings.isNull
          /\ InlineSelection(Len(headings)) = <<i>>

(***************************************************************************)
(* C10  getMarkdownFromHeadings treats title and emptiness the same way   *)
(* in every style: with content the result is the title prefix (title and *)
(* newline for the list styles, title and one space for the inline style, *)
(* nothing without a title) followed by the body; without content it is   *)
(* the empty string when hideWhenEmpty is set, and otherwise the title    *)
(* prefix followed by the no-headings-found notice.                       *)
(***************************************************************************)
TitleAndEmptinessHandling ==
    pc = "markdown" =>
        markdown =
            IF ~markdownHeadings.isNull
            THEN ExpectedTitlePrefix \o markdownHeadings.text
            ELSE IF options.hideWhenEmpty THEN <<>>
            ELSE ExpectedTitlePrefix \o NoHeadingsNotice

\* an inline table of contents after its title and one space
InlineTitleWitness ==
    /\ pc = "markdown"
    /\ options.style = "inlineFirstLevel"
    /\ options.title = <<"T">>
    /\ ~markdownHeadings.isNull
    /\ markdown = <<"T", " ">> \o markdownHeadings.text

(***************************************************************************)
(* Notions for the foldable markup.                                        *)
(***************************************************************************)
MarkupTags ==
    {"<ul>", "</ul>", "<ol>", "</ol>", "<li>", "</li>",
     "<details open>", "</details>", "<summary>", "</summary>"}

\* the positions of the items that are open where the item at p opens: at
\* every closing tag between q and p, fewer items have closed after q than
\* have opened after q
OpenItemsAt(tokens, p) ==
    LET opens == {i \in 1..(p - 1) : tokens[i] = "<li>"}
        closes == {i \in 1..(p - 1) : tokens[i] = "</li>"}
    IN  {q \in opens :
            \A r \in {c \in closes : c > q} :
                Cardinality({c \in closes : q < c /\ c <= r})
                    <= Cardinality({o \in opens : q < o /\ o < r})}

\* the position of the k-th "<li>" of a markup
NthItem(tokens, k) ==
    LET S == {i \in DOMAIN tokens : tokens[i] = "<li>"}
    IN  CHOOSE p \in S : Cardinality({q \in S : q < p}) = k - 1

\* the characters that follow the opening of the item at p, up to the next
\* tag other than the <details> and <summary> of the item itself
ItemText(tokens, p) ==
    LET start == CHOOSE i \in (p + 1)..Len(tokens) :
                    /\ tokens[i] \notin {"<details open>", "<summary>"}
                    /\ \A x \in (p + 1)..(i - 1) :
                          tokens[x] \in {"<details open>", "<summary>"}
        stop == CHOOSE i \in start..Len(tokens) :
                    /\ tokens[i] \in MarkupTags
                    /\ \A x \in start..(i - 1) : tokens[x] \notin MarkupTags
    IN  SubSeq(tokens, start, stop - 1)

\* the list items of a markup in the order they open, each with the items
\* that contain it (outermost first, by their place in that order) and the
\* characters of its own label
ScanMarkup(tokens) ==
    LET S == {i \in DOMAIN tokens : tokens[i] = "<li>"}
        place(q) == Cardinality({x \in S : x <= q})
    IN  [k \in 1..Cardinality(S) |->
            LET p == NthItem(tokens, k)
                open == OpenItemsAt(tokens, p)
            IN  [parents |-> [n \in 1..Cardinality(open) |->
                                 place(CHOOSE q \in open :
                                          Cardinality({x \in open : x < q}) = n - 1)],
                 text |-> ItemText(tokens, p)]]

\* the render put a list into the element
ShowsList == Len(element) > 0 /\ element[Len(element)].tag = "list"

ListItems == ScanMarkup(element[Len(element)].content)

\* the nearest filtered heading before k with a smaller depth, or 0
NearestShallowerBefore(k) ==
    LET S == {j \in 1..(k - 1) : filtered[j].depth < filtered[k].depth}
    IN  IF S = {} THEN 0 ELSE CHOOSE j \in S : \A x \in S : x <= j

\* the node of the tree that has k among its children, or 0 for a root
TreeParent(k) ==
    LET S == {j \in DOMAIN tree.nodes :
                 \E c \in DOMAIN tree.nodes[j].children : tree.nodes[j].children[c] = k}
    IN  IF S = {} THEN 0 ELSE CHOOSE j \in S : TRUE

(***************************************************************************)
(* C11  Round-trip tree shape: in the forest that buildTree builds from a *)
(* filtered sequence and renderNodes emits, the node of the k-th filtered *)
(* heading has exactly depth[k] ancestors, the nodes come in filtered     *)
(* order in a pre-order walk, and the parent of a node is the nearest     *)
(* preceding node with a smaller depth.                                    *)
(***************************************************************************)
TreeShapeMatchesDepths ==
    (pc = "loaded" /\ renderOutcome = "ok" /\ Len(filtered) > 0
        /\ options.foldable /\ options.style # "inlineFirstLevel") =>
        /\ ShowsList
        /\ Len(tree.nodes) = Len(filtered)
        /\ \A k \in DOMAIN filtered :
              /\ TreeParent(k) = NearestShallowerBefore(k)
              /\ (k \in {tree.roots[r] : r \in DOMAIN tree.roots})
                    <=> (filtered[k].depth = 0)
        /\ LET items == ListItems
           IN  /\ Len(items) = Len(filtered)
               /\ \A k \in DOMAIN filtered :
                     /\ Len(items[k].parents) = filtered[k].depth
                     /\ items[k].text =
                           wikitextToHtml(getFormattedMarkdownHeading(
                               filtered[k].heading.heading, options))
                     /\ IF filtered[k].depth = 0 THEN items[k].parents = <<>>
                        ELSE items[k].parents[Len(items[k].parents)]
                               = NearestShallowerBefore(k)

\* H1, H3, H3: the two H3 are siblings, one container deep, under the H1
SiblingsUnderParentWitness ==
    /\ pc = "loaded"
    /\ ShowsList
    /\ Len(filtered) = 3
    /\ filtered[1].heading.level = 1
    /\ filtered[2].heading.level = 3
    /\ filtered[3].heading.level = 3
    /\ ListItems[2].parents = <<1>>
    /\ ListItems[3].parents = <<1>>
    /\ tree.nodes[1].children = <<2, 3>>

(***************************************************************************)
(* C12. Renderer.render, main.ts:124-169, with a malformed configuration. *)
(***************************************************************************)
\* the children of the element that are failure notices
FailureNotices ==
    { c \in DOMAIN element : element[c] = MarkdownChild(FailureNotice) }

\* C12: once a failing render has returned, the element holds exactly one
\* failure notice and nothing else, whatever renders came before it.
FailureNoticeReplacesContent ==
    (pc = "loaded" /\ renderOutcome = "failed") =>
        element = <<MarkdownChild(FailureNotice)>>

\* a second failing render of a malformed source text has returned
SecondFailingRenderReturned ==
    /\ pc = "loaded"
    /\ renderOutcome = "failed"
    /\ malformed = "parse"
    /\ renderCount = 2
    /\ Cardinality(FailureNotices) = 2

(***************************************************************************)
(* C14. The handlers registered by onload, main.ts:98-117.                 *)
(***************************************************************************)
\* the step renders once more
RendersAfresh == renderCount' = renderCount + 1

\* the step neither renders nor touches what is shown
LeavesRendererAlone == UNCHANGED <<sourcePath, renderCount, element>>

\* what one 'changed' or 'rename' notification e does to the Renderer
FollowsNotification(e) ==
    /\ (e.kind = "rename" /\ e.oldPath = sourcePath) =>
            /\ sourcePath' = e.path
            /\ RendersAfresh
    /\ (e.kind = "rename" /\ e.oldPath # sourcePath) => LeavesRendererAlone
    /\ e.kind = "changed" =>
            /\ sourcePath' = sourcePath
            /\ RendersAfresh <=> e.path = sourcePath
            /\ e.path # sourcePath => LeavesRendererAlone
    \* the hosting document stays the tracked one, so its changes render
    /\ sourcePath' = docPath'
    /\ (e.kind = "changed" /\ e.path = docPath') =>
            /\ RendersAfresh
            /\ (renderOutcome' = "ok" /\ ~options.foldable) =>
                  markdown' = getMarkdownFromHeadings(headings', options)

\* C14: a rename of the tracked file sets sourcePath to the new path and
\* re-renders, a 'changed' notification re-renders exactly when it is for
\* the tracked path, notifications for other files change nothing, and so
\* a change of the hosting document renders afresh also after renames.
RendererFollowsRenames ==
    [][ lastEvent'.kind \in {"changed", "rename"} => FollowsNotification(lastEvent') ]_vars

\* the hosting document was renamed and a later change of it was rendered
ChangeAfterRenameRenderedWitness ==
    /\ pc = "loaded"
    /\ lastEvent.kind = "changed"
    /\ lastEvent.path = "c.md"
    /\ sourcePath = "c.md"
    /\ docPath = "c.md"
    /\ renderCount = 3
    /\ renderOutcome = "ok"
    /\ Len(headings) = 1
    /\ ~options.foldable
    /\ element = <<MarkdownChild(getMarkdownFromHeadings(headings, options))>>

(***************************************************************************)
(* C15. computeNormalizedDepths, headings.ts:101-115, against the          *)
(* reference definition, over levels of 0 and below as well.               *)
(***************************************************************************)
RawLevel(k) == filtered[k].heading.level

\* the nearest preceding surviving heading with a strictly smaller raw
\* level, 0 when there is none
LevelParent(k) ==
    LET lower == { j \in 1..(k - 1) : RawLevel(j) < RawLevel(k) }
    IN  IF lower = {} THEN 0
        ELSE CHOOSE j \in lower : \A i \in lower : i <= j

\* C15: every surviving heading has depth 0 when no preceding surviving
\* heading has a strictly smaller raw level, and otherwise the depth of the
\* nearest such heading plus one; this for levels of 0 and below too.
DepthsFollowLevelParents ==
    pc = "filtered" =>
        \A k \in DOMAIN filtered :
            filtered[k].depth =
                IF LevelParent(k) = 0 THEN 0
                ELSE filtered[LevelParent(k)].depth + 1

\* a level below 0 pops a larger one, and a level of 0 nests under it
DegenerateLevelsWitness ==
    /\ pc = "filtered"
    /\ Len(filtered) = 3
    /\ [k \in 1..3 |-> RawLevel(k)] = <<1, -1, 0>>
    /\ [k \in 1..3 |-> filtered[k].depth] = <<0, 0, 1>>

(***************************************************************************)
(* C16. The markdown list path (headings.ts:88-99) and the foldable path   *)
(* (main.ts:136-157, 172-233) over the same document and options.          *)
(***************************************************************************)
\* what the markdown path's list handler returns for the rendered document
MarkdownList ==
    getMarkdownListFromHeadings(headings, options.style = "nestedOrderedList", options)

\* the foldable path shows nothing, or the notice after the optional title
ShowsEmptyState ==
    \/ element = <<>>
    \/ element = TitleChildren(options) \o <<NoHeadingsChild>>

\* the pre-order walk of the forest below the nodes ids, as node ids
RECURSIVE PreOrder(_)
PreOrder(ids) ==
    IF Len(ids) = 0 THEN <<>>
    ELSE <<Head(ids)>> \o PreOrder(tree.nodes[Head(ids)].children)
                       \o PreOrder(Tail(ids))

\* how many ancestors node k of the tree has
RECURSIVE AncestorCount(_)
AncestorCount(k) ==
    IF TreeParent(k) = 0 THEN 0 ELSE 1 + AncestorCount(TreeParent(k))

\* the label of a markdown list line: what follows tabs, marker and space
LineLabel(line) ==
    SubSeq(line, LeadingTabs(line) + Len(ExpectedMarker) + 2, Len(line))

\* C16: the foldable path shows its empty state exactly when the markdown
\* list handler signals no content; otherwise the pre-order walk of the
\* foldable tree visits the headings of the markdown lines in the same
\* order, with the same formatted labels, each node having as many
\* ancestors as its line has leading tabs.
FoldableAgreesWithMarkdownList ==
    (pc = "loaded" /\ renderOutcome = "ok" /\ options.foldable /\ ListStyle) =>
        /\ ShowsEmptyState <=> MarkdownList.isNull
        /\ ShowsList <=> ~MarkdownList.isNull
        /\ ~MarkdownList.isNull =>
              LET lines == SplitAt(MarkdownList.text, "\n")
                  walk == PreOrder(tree.roots)
              IN  /\ Len(walk) = Len(lines)
                  /\ \A k \in DOMAIN walk :
                        /\ walk[k] = k
                        /\ filtered[k].heading.position
                              = getFilteredHeadings(headings, options)[k].heading.position
                        /\ tree.nodes[walk[k]].text = LineLabel(lines[k])
                        /\ AncestorCount(walk[k]) = LeadingTabs(lines[k])

\* a linked child under a linked parent, on both paths
LinkedChildOnBothPathsWitness ==
    /\ pc = "loaded"
    /\ ShowsList
    /\ options.includeLinks
    /\ Len(tree.nodes) = 2
    /\ tree.nodes[1].children = <<2>>
    /\ ~MarkdownList.isNull
    /\ LeadingTabs(SplitAt(MarkdownList.text, "\n")[2]) = 1
    /\ tree.nodes[2].text = LineLabel(SplitAt(MarkdownList.text, "\n")[2])
    /\ Len(tree.nodes[2].text) > 1

\* every heading is excluded: the empty state on one path, no content on
\* the other
EmptyOnBothPathsWitness ==
    /\ pc = "loaded"
    /\ Len(headings) > 0
    /\ ~options.hideWhenEmpty
    /\ ShowsEmptyState
    /\ MarkdownList.isNull

(***************************************************************************)
(* C13. wikitextToHtml and escapeHtml, main.ts:235-250.                    *)
(***************************************************************************)
AnchorStart ==
    <<"<", "a", " ", "c", "l", "a", "s", "s", "=", "\"", "i", "n", "t", "e",
      "r", "n", "a", "l", "-", "l", "i", "n", "k", "\"", " ", "d", "a", "t",
      "a", "-", "h", "r", "e", "f", "=", "\"", "#">>

AnchorMiddle == <<"\"", ">">>

AnchorEnd == <<"<", "/", "a", ">">>

\* the anchor expected for the other link, [[#&|<]]
OtherAnchor ==
    AnchorStart \o <<"&", "a", "m", "p", ";">> \o AnchorMiddle
        \o <<"&", "l", "t", ";">> \o AnchorEnd

\* text around a link is left as it is, another link becomes its anchor
SurroundingHtml(text) == IF text = OtherLink THEN OtherAnchor ELSE text

\* the entities an HTML reader knows, as [name, char]
Entities ==
    { [name |-> <<"&", "a", "m", "p", ";">>, char |-> "&"],
      [name |-> <<"&", "l", "t", ";">>, char |-> "<"],
      [name |-> <<"&", "g", "t", ";">>, char |-> ">"],
      [name |-> <<"&", "q", "u", "o", "t", ";">>, char |-> "\""] }

\* the entities whose name stands at the start of text
EntitiesAtStart(text) ==
    { e \in Entities : /\ Len(e.name) <= Len(text)
                       /\ SubSeq(text, 1, Len(e.name)) = e.name }

\* text read as HTML: every entity gives its character, once; an "&" that
\* starts no entity, or a raw "<", ">" or quote, makes the reading fail
RECURSIVE ReadHtml(_)
ReadHtml(text) ==
    IF Len(text) = 0 THEN [ok |-> TRUE, chars |-> <<>>]
    ELSE IF Head(text) \in {"<", ">", "\""} THEN [ok |-> FALSE, chars |-> <<>>]
    ELSE IF Head(text) = "&"
    THEN IF EntitiesAtStart(text) = {} THEN [ok |-> FALSE, chars |-> <<>>]
         ELSE LET e == CHOOSE x \in EntitiesAtStart(text) : TRUE
                  rest == ReadHtml(SubSeq(text, Len(e.name) + 1, Len(text)))
              IN  [ok |-> rest.ok, chars |-> <<e.char>> \o rest.chars]
    ELSE LET rest == ReadHtml(Tail(text))
         IN  [ok |-> rest.ok, chars |-> <<Head(text)>> \o rest.chars]

\* the anchor emitted for the link of wikitext, cut out of html: the value
\* of data-href up to the next quote, the content up to the next "<"
EmittedAnchor ==
    LET hrefFrom == Len(SurroundingHtml(wikitext.before)) + Len(AnchorStart) + 1
        hrefEnd == FirstIndexOf(html, hrefFrom, {"\""})
        textFrom == hrefEnd + Len(AnchorMiddle)
        textEnd == FirstIndexOf(html, textFrom, {"<"})
    IN  [ found |-> hrefEnd > 0 /\ textEnd > 0,
          target |-> SubSeq(html, hrefFrom, hrefEnd - 1),
          display |-> SubSeq(html, textFrom, textEnd - 1) ]

\* C13: every [[#target|displayText]] of a label becomes an anchor whose
\* target and display text hold no raw "<", ">" or quote and only "&" that
\* start an entity, and that read back as the original target and display
\* text: each character is escaped once, none twice.
LinksBecomeEscapedAnchors ==
    pc = "converted" =>
        /\ EmittedAnchor.found
        /\ html = SurroundingHtml(wikitext.before)
                    \o AnchorStart \o EmittedAnchor.target \o AnchorMiddle
                    \o EmittedAnchor.display \o AnchorEnd
                    \o SurroundingHtml(wikitext.after)
        /\ ReadHtml(EmittedAnchor.target) = [ok |-> TRUE, chars |-> wikitext.link]
        /\ ReadHtml(EmittedAnchor.display) = [ok |-> TRUE, chars |-> wikitext.display]

\* two links of one label were replaced, the second with an ampersand before
\* a character that is escaped too
AmpersandBeforeEscapedWitness ==
    /\ pc = "converted"
    /\ wikitext.before = OtherLink
    /\ wikitext.link = <<"&", "<">>
    /\ wikitext.display = <<"|", "\"">>
    /\ EmittedAnchor.target = <<"&", "a", "m", "p", ";", "&", "l", "t", ";">>
    /\ EmittedAnchor.display = <<"|", "&", "q", "u", "o", "t", ";">>
    /\ SubSeq(html, 1, Len(OtherAnchor)) = OtherAnchor


====
